---- MODULE Spec2Model ----
(***************************************************************************)
(* Model of the meal catalogue of meal_max/models/kitchen_model.py: the    *)
(* meals table, and one action per exposed function (create_meal,          *)
(* clear_meals, delete_meal, get_leaderboard, get_meal_by_id,              *)
(* get_meal_by_name, update_meal_stats).  Each action is one whole call:   *)
(* it records the call in op, its outcome in result, and the table it      *)
(* leaves in meals, the log events it emitted in log, the connections it   *)
(* acquired in opened and the connections left open in conns.              *)
(*                                                                         *)
(* Every failure of the functions is a Python ValueError (or a             *)
(* sqlite3.Error); result.err names it by the message it carries:          *)
(*   "invalid-argument"  Invalid price / difficulty / result / sort_by     *)
(*   "not-found"         "... not found"                                   *)
(*   "already-deleted"   "... has been deleted"                            *)
(*   "duplicate-name"    "Meal with name ... already exists"               *)
(*   "storage-error"     a re-raised sqlite3.Error                         *)
(* and "none" is a normal return.                                          *)
(***************************************************************************)
EXTENDS Integers, Sequences, FiniteSets

VARIABLES meals, op, result, log, conns, opened

vars == <<meals, op, result, log, conns, opened>>

(***************************************************************************)
(* Inputs of the calls.                                                    *)
(***************************************************************************)
Names == {"Soup", "Taco"}
Cuisines == {"Thai"}
Prices == {-1, 0, 5}
Difficulties == {"LOW", "HIGH", "EASY"}
Outcomes == {"win", "loss", "draw"}
SortKeys == {"wins", "win_pct", "bogus"}
MealIds == 1..(Cardinality(Names) + 1)

\* Cap on a row's battles counter, which the code leaves unbounded.
MaxBattles == 2

\* Prices given to the Meal constructor: -MaxPrice .. MaxPrice.
MaxPrice == 2

\* Battles of a fetched leaderboard row: 1 .. MaxCount.
MaxCount == 16

(***************************************************************************)
(* The outcome of a call.                                                  *)
(***************************************************************************)
Return(value) == [err |-> "none", value |-> value]
Raise(err) == [err |-> err, value |-> <<>>]

(***************************************************************************)
(* The connection provider and the logger.                                 *)
(***************************************************************************)
\* get_db_connection(): entering the scope opens a connection, and leaving
\* it, by return or by exception, closes it.
Acquire(c) == c + 1
Release(c) == c - 1

\* with get_db_connection() as conn: <block>
Scoped_NeverClosed(c) == Acquire(c)

Scoped(c) == Release(Acquire(c))

\* What a call leaves besides its result: the events it logged, in order,
\* and the connections it acquired (each in a with statement).
Effects(events, acquired) ==
    /\ log' = events
    /\ opened' = acquired
    /\ conns' = IF acquired = 0 THEN conns ELSE Scoped(conns)

(***************************************************************************)
(* The meals table, as the schema script creates it.                       *)
(***************************************************************************)
\* The table after the schema script has run: no rows.
EmptyTable == <<>>

\* The columns an INSERT does not give take the schema's defaults.
SchemaDefaults == [battles |-> 0, wins |-> 0, deleted |-> FALSE]

\* id is the store-generated primary key: one more than the largest id.
NextId == Len(meals) + 1

\* The uniqueness constraint on the meal column, whatever the deleted flag.
UniqueViolation_LiveRowsOnly(meal) ==
    \E i \in 1..Len(meals) : meals[i].meal = meal /\ ~meals[i].deleted

UniqueViolation(meal) == \E i \in 1..Len(meals) : meals[i].meal = meal

\* cursor.fetchone(): the first row of the result, or None (the empty tuple).
FetchOne(rows) == IF Len(rows) = 0 THEN <<>> ELSE <<rows[1]>>

(***************************************************************************)
(* Meal and Meal.__post_init__                                             *)
(***************************************************************************)
ValidDifficulty == {"LOW", "MED", "HIGH"}

PostInit_ZeroRejected(price, difficulty) ==
    IF price <= 0 THEN "invalid-argument"
    ELSE IF difficulty \notin ValidDifficulty THEN "invalid-argument"
    ELSE "none"

PostInit(price, difficulty) ==
    IF price < 0 THEN "invalid-argument"
    ELSE IF difficulty \notin ValidDifficulty THEN "invalid-argument"
    ELSE "none"

Meal(id, meal, cuisine, price, difficulty) ==
    IF PostInit(price, difficulty) # "none"
    THEN Raise(PostInit(price, difficulty))
    ELSE Return(<<[id |-> id, meal |-> meal, cuisine |-> cuisine,
                   price |-> price, difficulty |-> difficulty]>>)

(***************************************************************************)
(* create_meal                                                             *)
(***************************************************************************)
IsNumber(price) == price \in Int

CreateValidation_ZeroAllowed(price, difficulty) ==
    IF ~IsNumber(price) \/ price < 0 THEN "invalid-argument"
    ELSE IF difficulty \notin ValidDifficulty THEN "invalid-argument"
    ELSE "none"

CreateValidation_PriceOnly(price, difficulty) ==
    IF ~IsNumber(price) \/ price <= 0 THEN "invalid-argument" ELSE "none"

CreateValidation(price, difficulty) ==
    IF ~IsNumber(price) \/ price <= 0 THEN "invalid-argument"
    ELSE IF difficulty \notin ValidDifficulty THEN "invalid-argument"
    ELSE "none"

\* INSERT INTO meals (meal, cuisine, price, difficulty) VALUES (?, ?, ?, ?)
InsertRow_ColumnsSwapped(meal, cuisine, price, difficulty) ==
    Append(meals, [id |-> NextId, meal |-> cuisine, cuisine |-> meal,
                   price |-> price, difficulty |-> difficulty,
                   battles |-> SchemaDefaults.battles,
                   wins |-> SchemaDefaults.wins,
                   deleted |-> SchemaDefaults.deleted])

InsertRow(meal, cuisine, price, difficulty) ==
    Append(meals, [id |-> NextId, meal |-> meal, cuisine |-> cuisine,
                   price |-> price, difficulty |-> difficulty,
                   battles |-> SchemaDefaults.battles,
                   wins |-> SchemaDefaults.wins,
                   deleted |-> SchemaDefaults.deleted])

\* The except clauses: the failure raised for a database exception.
CreateError_NoIntegrityClause(exc) == "storage-error"

CreateError(exc) ==
    IF exc = "IntegrityError" THEN "duplicate-name" ELSE "storage-error"

create_meal(meal, cuisine, price, difficulty) ==
    /\ op' = [name |-> "create_meal", args |-> <<meal, cuisine, price, difficulty>>]
    /\ IF CreateValidation(price, difficulty) # "none"
       THEN /\ result' = Raise(CreateValidation(price, difficulty))
            /\ meals' = meals
            /\ Effects(<<>>, 0)
       ELSE IF UniqueViolation(meal)
       THEN /\ result' = Raise(CreateError("IntegrityError"))
            /\ meals' = meals
            /\ Effects(<<"error">>, 1)
       ELSE /\ result' = Return(<<>>)
            /\ meals' = InsertRow(meal, cuisine, price, difficulty)
            /\ Effects(<<"info">>, 1)

(***************************************************************************)
(* clear_meals                                                             *)
(***************************************************************************)
clear_meals_RowsKept ==
    /\ op' = [name |-> "clear_meals", args |-> <<>>]
    /\ result' = Return(<<>>)
    /\ meals' = meals
    /\ Effects(<<"info">>, 1)

clear_meals ==
    /\ op' = [name |-> "clear_meals", args |-> <<>>]
    /\ result' = Return(<<>>)
    /\ meals' = EmptyTable
    /\ Effects(<<"info">>, 1)

(***************************************************************************)
(* delete_meal                                                             *)
(***************************************************************************)
\* SELECT deleted FROM meals WHERE id = ?
SelectDeletedById(meal_id) ==
    LET hit(r) == r.id = meal_id
        rows == SelectSeq(meals, hit)
    IN  [i \in 1..Len(rows) |-> <<rows[i].deleted>>]

\* deleted = cursor.fetchone()[0]; None[0] is the TypeError of "not found".
CheckDeleted_Ignored(fetched) ==
    IF fetched = <<>> THEN "not-found" ELSE "none"

CheckDeleted(fetched) ==
    IF fetched = <<>> THEN "not-found"
    ELSE IF fetched[1][1] THEN "already-deleted"
    ELSE "none"

\* UPDATE meals SET deleted = TRUE WHERE id = ?
UpdateDeleted_RowRemoved(meal_id) ==
    LET kept(r) == r.id # meal_id
    IN  SelectSeq(meals, kept)

UpdateDeleted_NoWhere(meal_id) ==
    [i \in 1..Len(meals) |-> [meals[i] EXCEPT !.deleted = TRUE]]

UpdateDeleted(meal_id) ==
    [i \in 1..Len(meals) |->
        IF meals[i].id = meal_id THEN [meals[i] EXCEPT !.deleted = TRUE]
        ELSE meals[i]]

delete_meal(meal_id) ==
    LET chk == CheckDeleted(FetchOne(SelectDeletedById(meal_id)))
    IN  /\ op' = [name |-> "delete_meal", args |-> <<meal_id>>]
        /\ IF chk # "none"
           THEN /\ result' = Raise(chk)
                /\ meals' = meals
           ELSE /\ result' = Return(<<>>)
                /\ meals' = UpdateDeleted(meal_id)
        /\ Effects(<<"info">>, 1)

(***************************************************************************)
(* get_meal_by_id, get_meal_by_name                                        *)
(***************************************************************************)
\* The row tuple of SELECT id, meal, cuisine, price, difficulty, deleted.
MealColumns(r) == <<r.id, r.meal, r.cuisine, r.price, r.difficulty, r.deleted>>

\* ... FROM meals WHERE id = ?
SelectMealById(meal_id) ==
    LET hit(r) == r.id = meal_id
        rows == SelectSeq(meals, hit)
    IN  [i \in 1..Len(rows) |-> MealColumns(rows[i])]

\* ... FROM meals WHERE meal = ?
SelectMealByName(meal_name) ==
    LET hit(r) == r.meal = meal_name
        rows == SelectSeq(meals, hit)
    IN  [i \in 1..Len(rows) |-> MealColumns(rows[i])]

\* if row: if row[5]: raise ...; return Meal(...)  else: raise ...
\* (the row is fetched[1]; Python's row[k] is its element k + 1).
MealFromRow_DeletedUnchecked(fetched) ==
    IF fetched # <<>>
    THEN Meal(fetched[1][1], fetched[1][2], fetched[1][3], fetched[1][4], fetched[1][5])
    ELSE Raise("not-found")

MealFromRow(fetched) ==
    IF fetched # <<>>
    THEN IF fetched[1][6]
         THEN Raise("already-deleted")
         ELSE Meal(fetched[1][1], fetched[1][2], fetched[1][3], fetched[1][4], fetched[1][5])
    ELSE Raise("not-found")

\* logger.info on the not-found and has-been-deleted paths only.
LookupLog(res) ==
    IF res.err \in {"not-found", "already-deleted"} THEN <<"info">> ELSE <<>>

get_meal_by_id(meal_id) ==
    /\ op' = [name |-> "get_meal_by_id", args |-> <<meal_id>>]
    /\ result' = MealFromRow(FetchOne(SelectMealById(meal_id)))
    /\ meals' = meals
    /\ Effects(LookupLog(MealFromRow(FetchOne(SelectMealById(meal_id)))), 1)

get_meal_by_name(meal_name) ==
    /\ op' = [name |-> "get_meal_by_name", args |-> <<meal_name>>]
    /\ result' = MealFromRow(FetchOne(SelectMealByName(meal_name)))
    /\ meals' = meals
    /\ Effects(LookupLog(MealFromRow(FetchOne(SelectMealByName(meal_name)))), 1)

(***************************************************************************)
(* update_meal_stats                                                       *)
(***************************************************************************)
\* if result == 'win' ... elif result == 'loss' ... else: raise ValueError
StatsStatement_LossCountsWin(res) ==
    IF res = "win" THEN "battles+wins"
    ELSE IF res = "loss" THEN "battles+wins"
    ELSE "raise"

StatsStatement_ElseIsLoss(res) ==
    IF res = "win" THEN "battles+wins" ELSE "battles"

StatsStatement(res) ==
    IF res = "win" THEN "battles+wins"
    ELSE IF res = "loss" THEN "battles"
    ELSE "raise"

\* UPDATE meals SET battles = battles + 1 [, wins = wins + 1] WHERE id = ?
UpdateStats_WinsOnly(meal_id, stmt) ==
    [i \in 1..Len(meals) |->
        IF meals[i].id # meal_id THEN meals[i]
        ELSE IF stmt = "battles+wins"
        THEN [meals[i] EXCEPT !.wins = @ + 1]
        ELSE [meals[i] EXCEPT !.battles = @ + 1]]

UpdateStats(meal_id, stmt) ==
    [i \in 1..Len(meals) |->
        IF meals[i].id # meal_id THEN meals[i]
        ELSE IF stmt = "battles+wins"
        THEN [meals[i] EXCEPT !.battles = @ + 1, !.wins = @ + 1]
        ELSE [meals[i] EXCEPT !.battles = @ + 1]]

\* Every row the call may write has room under the cap.
BattlesBelowCap(meal_id) ==
    \A i \in 1..Len(meals) :
        meals[i].id = meal_id => meals[i].battles < MaxBattles

update_meal_stats(meal_id, res) ==
    LET chk == CheckDeleted(FetchOne(SelectDeletedById(meal_id)))
    IN  /\ op' = [name |-> "update_meal_stats", args |-> <<meal_id, res>>]
        /\ IF chk # "none"
           THEN /\ result' = Raise(chk)
                /\ meals' = meals
                /\ Effects(<<"info">>, 1)
           ELSE IF StatsStatement(res) = "raise"
           THEN /\ result' = Raise("invalid-argument")
                /\ meals' = meals
                /\ Effects(<<>>, 1)
           ELSE /\ BattlesBelowCap(meal_id)
                /\ result' = Return(<<>>)
                /\ meals' = UpdateStats(meal_id, StatsStatement(res))
                /\ Effects(<<>>, 1)

(***************************************************************************)
(* get_leaderboard                                                         *)
(***************************************************************************)
\* (wins * 1.0 / battles): the quotient as a pair <<wins, battles>>.  The
\* store computes an IEEE double; rounding to nearest is monotone and keeps
\* distinct quotients of counters below 2^26 distinct, so doubles compare as
\* the exact quotients do.
Quotient(wins, battles) == <<wins, battles>>

QuotientGeq(p, q) == p[1] * q[2] >= q[1] * p[2]

\* WHERE deleted = false AND battles > 0
WhereClause_DeletedToo(r) == r.battles > 0

WhereClause(r) == r.deleted = FALSE /\ r.battles > 0

\* SELECT id, meal, cuisine, price, difficulty, battles, wins,
\*        (wins * 1.0 / battles) AS win_pct FROM meals WHERE ...
\* A row excluded by the WHERE clause is never divided.
LeaderboardRows ==
    LET rows == SelectSeq(meals, WhereClause)
    IN  { <<rows[i].id, rows[i].meal, rows[i].cuisine, rows[i].price,
            rows[i].difficulty, rows[i].battles, rows[i].wins,
            Quotient(rows[i].wins, rows[i].battles)>> : i \in 1..Len(rows) }

\* if sort_by == "win_pct" ... elif sort_by == "wins" ... else: raise
OrderClause_ElseIsWins(sort_by) ==
    IF sort_by = "win_pct" THEN "win_pct" ELSE "wins"

OrderClause(sort_by) ==
    IF sort_by = "win_pct" THEN "win_pct"
    ELSE IF sort_by = "wins" THEN "wins"
    ELSE "raise"

\* ORDER BY <column> DESC: row a may come before row b.
MayPrecede_Ascending(a, b, column) ==
    IF column = "win_pct" THEN QuotientGeq(b[8], a[8]) ELSE b[7] >= a[7]

MayPrecede(a, b, column) ==
    IF column = "win_pct" THEN QuotientGeq(a[8], b[8]) ELSE a[7] >= b[7]

\* cursor.fetchall(): the selected rows, each once, in an order the ORDER BY
\* clause allows; the order of rows with equal keys is the store's choice.
FetchAll(rowset, column) ==
    { s \in [1..Cardinality(rowset) -> rowset] :
        /\ \A i, j \in 1..Cardinality(rowset) : i # j => s[i] # s[j]
        /\ \A i, j \in 1..Cardinality(rowset) :
               i < j => MayPrecede(s[i], s[j], column) }

\* round(x * 100, 1) of the quotient x, in tenths of a percent, ties to even.
\* Python rounds the double x * 100; that is the exact quotient's rounding
\* for every battles below 80 (at 23 / 80 the double falls below the tie).
RoundPct_Truncated(q) == (q[1] * 1000) \div q[2]

RoundPct(q) ==
    LET n == q[1] * 1000
        d == q[2]
        lo == n \div d
    IN  IF 2 * (n % d) > d THEN lo + 1
        ELSE IF 2 * (n % d) < d THEN lo
        ELSE IF lo % 2 = 0 THEN lo ELSE lo + 1

\* The dictionary built for each fetched row.
LeaderboardEntry(row) ==
    [id |-> row[1], meal |-> row[2], cuisine |-> row[3], price |-> row[4],
     difficulty |-> row[5], battles |-> row[6], wins |-> row[7],
     win_pct |-> RoundPct(row[8])]

get_leaderboard(sort_by) ==
    /\ op' = [name |-> "get_leaderboard", args |-> <<sort_by>>]
    /\ meals' = meals
    /\ IF OrderClause(sort_by) = "raise"
       THEN /\ result' = Raise("invalid-argument")
            /\ Effects(<<"error">>, 0)
       ELSE /\ \E rows \in FetchAll(LeaderboardRows, OrderClause(sort_by)) :
                 result' = Return([i \in 1..Len(rows) |-> LeaderboardEntry(rows[i])])
            /\ Effects(<<"info">>, 1)

(***************************************************************************)
(* Failures of the store                                                   *)
(***************************************************************************)
\* A sqlite3.Error raised in the with block of a call (the connection cannot
\* be opened, or a statement fails): the call's except clause logs an error
\* and raises it again.  Nothing was committed, except that the schema script
\* of clear_meals may already have dropped the table.
sqlite_error(name, args) ==
    /\ op' = [name |-> name, args |-> args]
    /\ result' = Raise(IF name = "create_meal" THEN CreateError("OperationalError")
                       ELSE "storage-error")
    /\ meals' \in (IF name = "clear_meals" THEN {meals, EmptyTable} ELSE {meals})
    /\ \E acquired \in {0, 1} : Effects(<<"error">>, acquired)

\* open(...) of the schema script fails in clear_meals: an OSError, which the
\* except sqlite3.Error clause does not catch.
clear_meals_script_unreadable ==
    /\ op' = [name |-> "clear_meals", args |-> <<>>]
    /\ result' = Raise("os-error")
    /\ meals' = meals
    /\ Effects(<<>>, 0)

(***************************************************************************)
(* Meal construction and leaderboard projection on their own               *)
(***************************************************************************)
\* Meal(id=..., meal=..., cuisine=..., price=..., difficulty=...)
new_Meal(id, meal, cuisine, price, difficulty) ==
    /\ op' = [name |-> "Meal", args |-> <<id, meal, cuisine, price, difficulty>>]
    /\ result' = Meal(id, meal, cuisine, price, difficulty)
    /\ meals' = meals
    /\ Effects(<<>>, 0)

\* The body of "for row in rows" on one fetched row, which has battles > 0
\* and wins <= battles.
leaderboard_entry(wins, battles) ==
    /\ op' = [name |-> "leaderboard_entry", args |-> <<wins, battles>>]
    /\ result' = Return(<<LeaderboardEntry(<<1, "Soup", "Thai", 5, "LOW", battles, wins,
                                             Quotient(wins, battles)>>)>>)
    /\ meals' = meals
    /\ Effects(<<>>, 0)

Init ==
    /\ meals = EmptyTable
    /\ op = [name |-> "init", args |-> <<>>]
    /\ result = Return(<<>>)
    /\ log = <<>>
    /\ conns = 0
    /\ opened = 0

Next ==
    \/ \E meal \in Names, cuisine \in Cuisines, price \in Prices,
          difficulty \in Difficulties :
            create_meal(meal, cuisine, price, difficulty)
    \/ clear_meals
    \/ \E meal_id \in MealIds : delete_meal(meal_id)
    \/ \E meal_id \in MealIds : get_meal_by_id(meal_id)
    \/ \E meal_name \in Names : get_meal_by_name(meal_name)
    \/ \E meal_id \in MealIds, res \in Outcomes : update_meal_stats(meal_id, res)
    \/ \E sort_by \in SortKeys : get_leaderboard(sort_by)

Spec == Init /\ [][Next]_vars

\* The calls failing in the store, one or two calls of each function.
Faults ==
    \/ \E meal \in {"Soup"}, cuisine \in Cuisines, price \in Prices,
          difficulty \in {"LOW"} :
            /\ CreateValidation(price, difficulty) = "none"
            /\ sqlite_error("create_meal", <<meal, cuisine, price, difficulty>>)
    \/ sqlite_error("clear_meals", <<>>)
    \/ \E meal_id \in {1} : sqlite_error("delete_meal", <<meal_id>>)
    \/ \E meal_id \in {1} : sqlite_error("get_meal_by_id", <<meal_id>>)
    \/ \E meal_name \in {"Soup"} : sqlite_error("get_meal_by_name", <<meal_name>>)
    \/ \E meal_id \in {1}, res \in {"win", "draw"} :
            sqlite_error("update_meal_stats", <<meal_id, res>>)
    \/ \E sort_by \in SortKeys \ {"win_pct"} :
            /\ OrderClause(sort_by) # "raise"
            /\ sqlite_error("get_leaderboard", <<sort_by>>)
    \/ clear_meals_script_unreadable

NextFaults == Next \/ Faults

SpecFaults == Init /\ [][NextFaults]_vars

\* Record construction and leaderboard projection applied to given inputs.
NextPure ==
    \/ \E id \in MealIds, meal \in Names, cuisine \in Cuisines,
          price \in (0 - MaxPrice)..MaxPrice,
          difficulty \in Difficulties \cup ValidDifficulty :
            new_Meal(id, meal, cuisine, price, difficulty)
    \/ \E battles \in 1..MaxCount, wins \in 0..MaxCount :
            /\ wins <= battles
            /\ leaderboard_entry(wins, battles)

SpecPure == Init /\ [][NextPure]_vars

(***************************************************************************)
(* Properties                                                              *)
(***************************************************************************)
\* The positions of the rows of table t with a given name, a given id.
RowsNamed(t, meal) == {i \in 1..Len(t) : t[i].meal = meal}
RowsWithId(t, id) == {i \in 1..Len(t) : t[i].id = id}

\* Table u is table t except for row i, which is r.
OnlyRowChanged(t, u, i, r) ==
    /\ Len(u) = Len(t)
    /\ u[i] = r
    /\ \A j \in 1..Len(t) : j # i => u[j] = t[j]

\* C1: a create with a valid price and difficulty whose name some row already
\* has, soft-deleted or not, fails with duplicate-name and leaves the table as
\* it was; and short of a reset a name once in the table stays in it, so the
\* create keeps failing after any sequence of operations without reset.
C1_Step ==
    /\ ( /\ op'.name = "create_meal"
         /\ op'.args[3] > 0
         /\ op'.args[4] \in {"LOW", "MED", "HIGH"}
         /\ RowsNamed(meals, op'.args[1]) # {} )
       => (result'.err = "duplicate-name" /\ meals' = meals)
    /\ op'.name # "clear_meals"
       => \A i \in 1..Len(meals) : RowsNamed(meals', meals[i].meal) # {}

C1_DuplicateNameRejected == [][C1_Step]_vars

C1_Witness ==
    /\ op.name = "create_meal"
    /\ result.err = "duplicate-name"
    /\ \E i \in RowsNamed(meals, op.args[1]) : meals[i].deleted

\* C2: delete(id) fails with not-found when no row has the id, with
\* already-deleted when the row is already deleted, and changes nothing in
\* both cases; otherwise it returns and only sets that row's deleted flag.  A
\* delete of the id just deleted fails with already-deleted, and so does every
\* later one before a reset, since until then a deleted row stays deleted.
C2_Step ==
    /\ op'.name = "delete_meal" =>
        LET hits == RowsWithId(meals, op'.args[1])
        IN  /\ hits = {} => (result'.err = "not-found" /\ meals' = meals)
            /\ \A i \in hits :
                 /\ meals[i].deleted
                      => (result'.err = "already-deleted" /\ meals' = meals)
                 /\ ~meals[i].deleted
                      => /\ result'.err = "none"
                         /\ OnlyRowChanged(meals, meals', i,
                                [meals[i] EXCEPT !.deleted = TRUE])
    /\ (op.name = "delete_meal" /\ op'.name = "delete_meal"
          /\ op.args = op'.args /\ result.err = "none")
         => result'.err = "already-deleted"
    /\ op'.name # "clear_meals"
         => \A i \in 1..Len(meals) :
              meals[i].deleted
              => (i <= Len(meals') /\ meals'[i].id = meals[i].id /\ meals'[i].deleted)

C2_Delete == [][C2_Step]_vars

C2_Witness ==
    /\ op.name = "delete_meal"
    /\ result.err = "none"
    /\ Len(meals) = 2
    /\ \E i, j \in 1..Len(meals) :
         /\ meals[i].id = op.args[1] /\ meals[i].deleted /\ meals[i].battles > 0
         /\ ~meals[j].deleted

\* C3: a lookup by id or by name fails with not-found exactly when no row has
\* the key, with already-deleted exactly when the row with the key is
\* soft-deleted, and otherwise returns that row's id, name, cuisine, price and
\* difficulty, which are the ones given to the create that made the row (a
\* create stores its arguments and no later call short of a reset changes
\* them); a lookup changes no row.
LookupAgrees(hits, res) ==
    /\ res.err \in {"none", "not-found", "already-deleted"}
    /\ res.err = "not-found" <=> hits = {}
    /\ res.err = "already-deleted" <=> \E i \in hits : meals[i].deleted
    /\ res.err = "none"
         => \E i \in hits :
              res.value = <<[id |-> meals[i].id, meal |-> meals[i].meal,
                             cuisine |-> meals[i].cuisine, price |-> meals[i].price,
                             difficulty |-> meals[i].difficulty]>>

C3_Step ==
    /\ op'.name = "get_meal_by_id"
         => (meals' = meals /\ LookupAgrees(RowsWithId(meals, op'.args[1]), result'))
    /\ op'.name = "get_meal_by_name"
         => (meals' = meals /\ LookupAgrees(RowsNamed(meals, op'.args[1]), result'))
    /\ (op'.name = "create_meal" /\ result'.err = "none")
         => /\ Len(meals') = Len(meals) + 1
            /\ meals'[Len(meals')].meal = op'.args[1]
            /\ meals'[Len(meals')].cuisine = op'.args[2]
            /\ meals'[Len(meals')].price = op'.args[3]
            /\ meals'[Len(meals')].difficulty = op'.args[4]
            /\ ~meals'[Len(meals')].deleted
    /\ op'.name # "clear_meals"
         => \A i \in 1..Len(meals) :
              /\ i <= Len(meals')
              /\ meals'[i].id = meals[i].id
              /\ meals'[i].meal = meals[i].meal
              /\ meals'[i].cuisine = meals[i].cuisine
              /\ meals'[i].price = meals[i].price
              /\ meals'[i].difficulty = meals[i].difficulty

C3_Lookup == [][C3_Step]_vars

C3_Witness ==
    /\ op.name = "get_meal_by_name"
    /\ result.err = "none"
    /\ result.value[1].id = 2
    /\ result.value[1].meal = op.args[1]
    /\ \E i \in 1..Len(meals) : meals[i].deleted

\* C4: on a live record, updateStats(id, win) adds 1 to its battles and 1 to
\* its wins, updateStats(id, loss) adds 1 to its battles only; nothing else in
\* the table changes.
C4_Step ==
    (op'.name = "update_meal_stats" /\ op'.args[2] \in {"win", "loss"})
    => \A i \in RowsWithId(meals, op'.args[1]) :
         ~meals[i].deleted
         => /\ result'.err = "none"
            /\ OnlyRowChanged(meals, meals', i,
                   [meals[i] EXCEPT
                       !.battles = @ + 1,
                       !.wins = @ + (IF op'.args[2] = "win" THEN 1 ELSE 0)])

C4_StatsIncrement == [][C4_Step]_vars

C4_Witness ==
    /\ op.name = "update_meal_stats"
    /\ op.args[2] = "loss"
    /\ result.err = "none"
    /\ Len(meals) = 2
    /\ \E i \in RowsWithId(meals, op.args[1]) :
         meals[i].battles = 2 /\ meals[i].wins = 1

\* C5, as claimed: updateStats with an outcome that is neither win nor loss
\* fails with invalid-argument for every id, and changes no row.
C5_Original_Step ==
    (op'.name = "update_meal_stats" /\ op'.args[2] \notin {"win", "loss"})
    => (result'.err = "invalid-argument" /\ meals' = meals)

C5_Original == [][C5_Original_Step]_vars

\* C5, amended: updateStats with an outcome that is neither win nor loss
\* always fails and changes no row; it fails with invalid-argument when the id
\* names a live record, with already-deleted when it names a soft-deleted
\* record, and with not-found when it names no record.
C5_Amended_Step ==
    (op'.name = "update_meal_stats" /\ op'.args[2] \notin {"win", "loss"})
    => LET hits == RowsWithId(meals, op'.args[1])
       IN  /\ meals' = meals
           /\ result'.err # "none"
           /\ hits = {} => result'.err = "not-found"
           /\ \A i \in hits :
                result'.err = IF meals[i].deleted THEN "already-deleted"
                              ELSE "invalid-argument"

C5_InvalidOutcome == [][C5_Amended_Step]_vars

C5_Witness ==
    /\ op.name = "update_meal_stats"
    /\ op.args[2] = "draw"
    /\ result.err = "invalid-argument"
    /\ \E i \in RowsWithId(meals, op.args[1]) : meals[i].battles > 0

\* C6: updateStats(id, win or loss) fails with not-found when no row has the
\* id and with already-deleted when the row is soft-deleted, changing no row;
\* and no call short of a reset changes the battles or wins of a soft-deleted
\* row.
C6_Step ==
    /\ (op'.name = "update_meal_stats" /\ op'.args[2] \in {"win", "loss"})
         => LET hits == RowsWithId(meals, op'.args[1])
            IN  /\ hits = {} => (result'.err = "not-found" /\ meals' = meals)
                /\ \A i \in hits :
                     meals[i].deleted
                     => (result'.err = "already-deleted" /\ meals' = meals)
    /\ op'.name # "clear_meals"
         => \A i \in 1..Len(meals) :
              meals[i].deleted
              => /\ i <= Len(meals')
                 /\ meals'[i].battles = meals[i].battles
                 /\ meals'[i].wins = meals[i].wins

C6_DeletedStatsFrozen == [][C6_Step]_vars

C6_Witness ==
    /\ op.name = "update_meal_stats"
    /\ op.args[2] = "win"
    /\ result.err = "already-deleted"
    /\ \E i \in RowsWithId(meals, op.args[1]) :
         meals[i].deleted /\ meals[i].battles = 1 /\ meals[i].wins = 0

\* C7: in every reachable state every row has 0 <= wins <= battles.
C7_WinsWithinBattles ==
    \A i \in 1..Len(meals) :
        0 <= meals[i].wins /\ meals[i].wins <= meals[i].battles

C7_Witness ==
    /\ op.name = "update_meal_stats"
    /\ \E i, j \in 1..Len(meals) :
         /\ meals[i].wins = 1 /\ meals[i].battles = 2
         /\ meals[j].wins = 2 /\ meals[j].battles = 2

\* C8: for sortBy wins or win_pct the leaderboard holds, each exactly once
\* and with the row's own columns, the rows that are not deleted and have
\* battles > 0, and no others; the call changes no row.
C8_Step ==
    (op'.name = "get_leaderboard" /\ op'.args[1] \in {"wins", "win_pct"})
    => LET lb == result'.value
       IN  /\ meals' = meals
           /\ result'.err = "none"
           /\ \A k, l \in 1..Len(lb) : k # l => lb[k].id # lb[l].id
           /\ {lb[k].id : k \in 1..Len(lb)}
                = {meals[i].id : i \in {j \in 1..Len(meals) :
                                          ~meals[j].deleted /\ meals[j].battles > 0}}
           /\ \A k \in 1..Len(lb) :
                \E i \in RowsWithId(meals, lb[k].id) :
                    /\ lb[k].meal = meals[i].meal
                    /\ lb[k].cuisine = meals[i].cuisine
                    /\ lb[k].price = meals[i].price
                    /\ lb[k].difficulty = meals[i].difficulty
                    /\ lb[k].battles = meals[i].battles
                    /\ lb[k].wins = meals[i].wins

C8_LeaderboardMembers == [][C8_Step]_vars

C8_Witness ==
    /\ op.name = "get_leaderboard"
    /\ op.args[1] = "wins"
    /\ Len(result.value) = 1
    /\ \E i \in 1..Len(meals) : meals[i].deleted /\ meals[i].battles > 0

\* C9: the leaderboard sorted by wins is non-increasing in wins, and the
\* leaderboard sorted by win_pct is non-increasing in wins / battles.
C9_LeaderboardOrder ==
    op.name = "get_leaderboard" /\ result.err = "none"
    => LET lb == result.value
       IN  \A k \in 1..Len(lb), l \in 1..Len(lb) :
             k < l
             => /\ op.args[1] = "wins" => lb[k].wins >= lb[l].wins
                /\ op.args[1] = "win_pct"
                     => lb[k].wins * lb[l].battles >= lb[l].wins * lb[k].battles

C9_Witness ==
    /\ op.name = "get_leaderboard"
    /\ op.args[1] = "win_pct"
    /\ Len(result.value) = 2
    /\ result.value[1].wins = 1 /\ result.value[1].battles = 1
    /\ result.value[2].wins = 1 /\ result.value[2].battles = 2
    /\ result.value[1].id = 2

\* C10: the leaderboard for a sortBy other than wins and win_pct fails with
\* invalid-argument, returns nothing and changes no row.
C10_Step ==
    (op'.name = "get_leaderboard" /\ op'.args[1] \notin {"wins", "win_pct"})
    => /\ result'.err = "invalid-argument"
       /\ result'.value = <<>>
       /\ meals' = meals

C10_InvalidSortKey == [][C10_Step]_vars

C10_Witness ==
    /\ op.name = "get_leaderboard"
    /\ op.args[1] = "bogus"
    /\ result.err = "invalid-argument"
    /\ \E i \in 1..Len(meals) : ~meals[i].deleted /\ meals[i].battles > 0

\* C11: a create with price <= 0 (0 included) or with a difficulty other than
\* LOW, MED, HIGH fails with invalid-argument, whether or not the name is
\* taken, and leaves the table as it was.
C11_Step ==
    ( /\ op'.name = "create_meal"
      /\ (op'.args[3] <= 0 \/ op'.args[4] \notin {"LOW", "MED", "HIGH"}) )
    => (result'.err = "invalid-argument" /\ meals' = meals)

C11_CreateInvalidArgument == [][C11_Step]_vars

C11_Witness ==
    /\ op.name = "create_meal"
    /\ op.args[3] = 0
    /\ op.args[4] = "LOW"
    /\ result.err = "invalid-argument"
    /\ RowsNamed(meals, op.args[1]) = {}
    /\ Len(meals) = 1

\* C12: a create that returns adds exactly one row, whose id no row had, with
\* the name, cuisine, price and difficulty given and battles = 0, wins = 0,
\* deleted = false; the rows that were there are unchanged.
C12_Step ==
    (op'.name = "create_meal" /\ result'.err = "none")
    => /\ Len(meals') = Len(meals) + 1
       /\ \A i \in 1..Len(meals) : meals'[i] = meals[i]
       /\ LET new == meals'[Len(meals')]
          IN  /\ RowsWithId(meals, new.id) = {}
              /\ new.meal = op'.args[1]
              /\ new.cuisine = op'.args[2]
              /\ new.price = op'.args[3]
              /\ new.difficulty = op'.args[4]
              /\ new.battles = 0
              /\ new.wins = 0
              /\ new.deleted = FALSE

C12_CreateAddsOneRow == [][C12_Step]_vars

C12_Witness ==
    /\ op.name = "create_meal"
    /\ result.err = "none"
    /\ Len(meals) = 2
    /\ meals[2].meal = op.args[1]
    /\ meals[1].deleted
    /\ meals[1].battles > 0

\* C13: short of a reset, a row whose deleted flag is true keeps it true, and
\* every id in the table stays in the table.
C13_Step ==
    op'.name # "clear_meals"
    => /\ \A i \in 1..Len(meals) :
            meals[i].deleted
            => \E j \in RowsWithId(meals', meals[i].id) : meals'[j].deleted
       /\ {meals[i].id : i \in 1..Len(meals)}
            \subseteq {meals'[j].id : j \in 1..Len(meals')}

C13_SoftDeleteIrreversible == [][C13_Step]_vars

C13_Witness ==
    /\ op.name = "create_meal"
    /\ result.err = "duplicate-name"
    /\ Len(meals) = 2
    /\ meals[1].deleted /\ meals[2].deleted

\* C14: a reset leaves a table with no row; on a table with no row every
\* lookup by id and by name fails with not-found, the leaderboard is empty,
\* and a create with a valid price and difficulty returns, whatever name it
\* gives.
C14_Step ==
    /\ op'.name = "clear_meals" => (result'.err = "none" /\ Len(meals') = 0)
    /\ Len(meals) = 0
       => /\ op'.name \in {"get_meal_by_id", "get_meal_by_name"}
               => result'.err = "not-found"
          /\ (op'.name = "get_leaderboard" /\ op'.args[1] \in {"wins", "win_pct"})
               => result' = [err |-> "none", value |-> <<>>]
          /\ ( /\ op'.name = "create_meal"
               /\ op'.args[3] > 0
               /\ op'.args[4] \in {"LOW", "MED", "HIGH"} )
               => (result'.err = "none" /\ Len(meals') = 1)

C14_ResetEmptiesTable == [][C14_Step]_vars

C14_Witness ==
    /\ op.name = "clear_meals"
    /\ Len(meals) = 0

\* C15: no two rows, soft-deleted ones counted, share an id or share a name.
C15_UniqueIdsAndNames ==
    \A i, j \in 1..Len(meals) :
        i # j => (meals[i].id # meals[j].id /\ meals[i].meal # meals[j].meal)

C15_Witness ==
    /\ Len(meals) = 2
    /\ meals[1].deleted
    /\ ~meals[2].deleted
    /\ op.name = "create_meal"
    /\ result.err = "duplicate-name"
    /\ op.args[1] = meals[1].meal

\* C16: every row has price >= 0 and a difficulty among LOW, MED, HIGH, and a
\* lookup by id or by name never fails with invalid-argument.
C16_StoredRowsValid ==
    /\ \A i \in 1..Len(meals) :
         meals[i].price >= 0 /\ meals[i].difficulty \in {"LOW", "MED", "HIGH"}
    /\ op.name \in {"get_meal_by_id", "get_meal_by_name"}
         => result.err # "invalid-argument"

C16_Witness ==
    /\ op.name = "get_meal_by_id"
    /\ result.err = "none"
    /\ result.value[1].difficulty = "HIGH"
    /\ Len(meals) = 2

\* C17: constructing a Meal fails with invalid-argument for every price < 0
\* and for every difficulty other than LOW, MED, HIGH, and succeeds, giving
\* the record of its arguments, for every price >= 0 (0 included) with a
\* difficulty among LOW, MED, HIGH.
C17_RecordValidator ==
    op.name = "Meal"
    => /\ (op.args[4] < 0 \/ op.args[5] \notin {"LOW", "MED", "HIGH"})
            => result.err = "invalid-argument"
       /\ (op.args[4] >= 0 /\ op.args[5] \in {"LOW", "MED", "HIGH"})
            => result = [err |-> "none",
                         value |-> <<[id |-> op.args[1], meal |-> op.args[2],
                                      cuisine |-> op.args[3], price |-> op.args[4],
                                      difficulty |-> op.args[5]]>>]

C17_Witness ==
    /\ op.name = "Meal"
    /\ op.args[4] = 0
    /\ op.args[5] = "MED"
    /\ result.err = "none"

\* C18: the win_pct of a leaderboard entry, counted in tenths of a percent,
\* is a nearest integer to 1000 * wins / battles of the entry (3 wins of 4
\* battles: 750, which is 75.0), and lies between 0 and 1000 (0.0 and 100.0).
C18_WinPctRounded ==
    op.name \in {"leaderboard_entry", "get_leaderboard"}
    => \A k \in 1..Len(result.value) :
         LET e == result.value[k]
             diff == e.win_pct * e.battles - 1000 * e.wins
         IN  /\ 2 * diff <= e.battles
             /\ 2 * (0 - diff) <= e.battles
             /\ 0 <= e.win_pct
             /\ e.win_pct <= 1000
             /\ (e.wins = 3 /\ e.battles = 4) => e.win_pct = 750

C18_Witness ==
    /\ op.name = "leaderboard_entry"
    /\ result.value[1].wins = 2
    /\ result.value[1].battles = 3
    /\ result.value[1].win_pct = 667

\* C19: every call that fails, with whatever failure, has emitted a log event.
C19_EveryFailureLogged == result.err # "none" => log # <<>>

\* C20: a call acquires at most one connection, and after every call, whether
\* it returned or raised, no connection is open.
C20_ConnectionsReleased == conns = 0 /\ opened <= 1

C20_Witness ==
    /\ op.name = "update_meal_stats"
    /\ result.err = "invalid-argument"
    /\ opened = 1
    /\ conns = 0

====
